---- MODULE Spec2Model ----
(***************************************************************************)
(* State-machine model of the coredump crate (src/src/lib.rs): the limit   *)
(* negotiation (enable_core_dumps), the panic-hook registration            *)
(* (register_panic_handler), the installed hook closure and the dump       *)
(* trigger (dump_core_and_quit / dump_core).                               *)
(*                                                                         *)
(* The operating system is the environment: every libc / std call that can *)
(* fail chooses its outcome nondeterministically, the process-wide state   *)
(* (RLIMIT_CORE pair, working directory, PID, SIGQUIT disposition, panic   *)
(* hook) is drawn from small sets.                                         *)
(***************************************************************************)
EXTENDS Integers, Sequences, FiniteSets, TLC

\* ------------------------------------------------------------------ bounds
\* Largest core-size limit value drawn for the initial (soft, hard) pair.
MaxLimit == 2
\* Number of register_panic_handler calls the program performs at most.
MaxRegs == 2
\* Number of panics the process raises at most.
MaxFaults == 2

\* --------------------------------------------------------------- constants
\* i32::MAX, the largest value of pid_t, the type kill() takes.
I32Max == 2147483647
\* One 16-bit half of a u32; a u32 is kept as [hi, lo] because integers
\* here are 32 bit signed and cannot hold u32::MAX.
Half == 65536

Threads == {1, 2}
\* The thread that performs the registration in the sequential program.
MainThread == {1}

\* std::env::temp_dir(): the scratch directory handed to dump_core_and_quit.
TempDir == "/tmp"
Dirs == {"/work", TempDir}

\* std::process::id() returns a u32; the values drawn sit around i32::MAX.
U32(h, l) == [hi |-> h, lo |-> l]
Pids == { U32(0, 4242),
          U32(32767, 65534),      \* i32::MAX - 1
          U32(32767, 65535),      \* i32::MAX
          U32(32768, 0),          \* i32::MAX + 1
          U32(65535, 65535) }     \* u32::MAX

\* u32 comparisons against i32::MAX = 0x7FFF_FFFF.
AboveI32Max(p) == p.hi >= 32768
AtOrAboveI32Max(p) == AboveI32Max(p) \/ (p.hi = 32767 /\ p.lo = 65535)

\* ------------------------------------------------------------------ hooks
\* A panic hook: the handler found installed at start (`base`: the runtime's
\* default or a user-installed one) wrapped `depth` times by the closure of
\* register_panic_handler.
DefaultHook == [base |-> "default", depth |-> 0]
UserHook == [base |-> "user", depth |-> 0]

\* The closure of lines 214-224 built around the captured hook h.
WrapDroppingCaptured(h) == [base |-> "default", depth |-> 1]
Wrap(h) == [base |-> h.base, depth |-> h.depth + 1]

\* ----------------------------------------------------------------- errors
\* Result<(), (Str, Error)>: ok, or a context string with an Error value.
\* The `{}` of a format! context stands for its argument.
OkResult == [ok |-> TRUE, ctx |-> "", err |-> ""]
NoResult == [ok |-> FALSE, ctx |-> "pending", err |-> "pending"]
Err(c, e) == [ok |-> FALSE, ctx |-> c, err |-> e]

ErrOs == "Io(last_os_error)"
ErrIo == "Io(std)"
ErrHardZero == "Io(Other, hard limit is zero)"
ErrInt == "Int(TryFromIntError)"

CtxRetrieveLimit == "failed to retrieve core file size limit"
CtxAdjustLimit == "failed to adjust core file size limit"
CtxCurrentDir == "failed to retrieve current directory"
CtxChangeDir == "failed to change working directory to {}"
CtxPid == "unable to dump core: PID {} is not a valid unsigned value"
CtxKill == "failed to send SIGQUIT"

\* pid.try_into() of dump_core: u32 -> pid_t (i32), checked.
TryIntoAsCast(p) ==
  [ok |-> TRUE,
   val |-> IF AboveI32Max(p) THEN (p.hi - Half) * Half + p.lo
                             ELSE p.hi * Half + p.lo]
TryInto(p) ==
  IF AboveI32Max(p) THEN [ok |-> FALSE, val |-> 0]
                    ELSE [ok |-> TRUE, val |-> p.hi * Half + p.lo]

\* ------------------------------------------------------------------ state
VARIABLES
  soft, hard,     \* RLIMIT_CORE of the process: rlim_cur, rlim_max
  hook,           \* the installed panic hook
  cwd,            \* the working directory of the process
  pid,            \* the process id
  sigquit,        \* disposition of SIGQUIT: "default" or "ignored"
  exit,           \* "running", or the signal that terminated the process
  rpc,            \* per thread: position inside register_panic_handler
  limit,          \* per thread: the local `limit` of enable_core_dumps
  default_panic,  \* per thread: the local `default_panic` (taken hook)
  regResult,      \* per thread: what register_panic_handler returned last
  rtrace,         \* per thread: calls made by the current/last registration
  hookAtCall,     \* per thread: the hook installed when the call began
  limitsAtCall,   \* per thread: <<soft, hard>> when the call began
  regCalls,       \* number of register_panic_handler calls so far
  regOk,          \* number of calls that returned Ok(())
  fpc,            \* position inside the panic hook
  fhook,          \* the hook the runtime invoked for the current panic
  flevel,         \* nesting level of the closure that is executing
  cur_dir,        \* the local `cur_dir` of dump_core_and_quit
  kpid,           \* the local `pid` of dump_core after the conversion
  coreResult,     \* what dump_core returned to dump_core_and_quit
  cwd0,           \* working directory when dump_core_and_quit was entered
  dumpResult,     \* what dump_core_and_quit returned last
  stderr,         \* lines eprintln! wrote for the current/last panic
  trace,          \* calls made while handling the current/last panic
  faults          \* number of panics whose hook has returned

procVars == <<soft, hard, hook, cwd, pid, sigquit, exit>>
regVars == <<rpc, limit, default_panic, regResult, rtrace, hookAtCall,
             limitsAtCall, regCalls, regOk>>
faultVars == <<fpc, fhook, flevel, cur_dir, kpid, coreResult, cwd0,
               dumpResult, stderr, trace, faults>>
vars == <<procVars, regVars, faultVars>>

\* One call recorded in a trace.
Ev(o, k, a, v, l) == [op |-> o, ok |-> k, arg |-> a, val |-> v, lvl |-> l]
REv(o, k) == [op |-> o, ok |-> k]

Init ==
  /\ hard \in 0..MaxLimit
  /\ soft \in 0..hard
  /\ hook \in {DefaultHook, UserHook}
  /\ cwd \in Dirs
  /\ pid \in Pids
  /\ sigquit \in {"default", "ignored"}
  /\ exit = "running"
  /\ rpc = [t \in Threads |-> "idle"]
  /\ limit = [t \in Threads |-> [cur |-> 0, max |-> 0]]
  /\ default_panic = [t \in Threads |-> DefaultHook]
  /\ regResult = [t \in Threads |-> NoResult]
  /\ rtrace = [t \in Threads |-> <<>>]
  /\ hookAtCall = [t \in Threads |-> DefaultHook]
  /\ limitsAtCall = [t \in Threads |-> <<0, 0>>]
  /\ regCalls = 0
  /\ regOk = 0
  /\ fpc = "idle"
  /\ fhook = DefaultHook
  /\ flevel = 0
  /\ cur_dir = TempDir
  /\ kpid = 0
  /\ coreResult = NoResult
  /\ cwd0 = TempDir
  /\ dumpResult = NoResult
  /\ stderr = <<>>
  /\ trace = <<>>
  /\ faults = 0


\* ------------------------------------------- register_panic_handler (204-227)
Running == exit = "running"

RegReturn(t, res) ==
  /\ rpc' = [rpc EXCEPT ![t] = "idle"]
  /\ regResult' = [regResult EXCEPT ![t] = res]

RLog(t, o, k) == rtrace' = [rtrace EXCEPT ![t] = Append(@, REv(o, k))]

\* The program calls register_panic_handler(); enable_core_dumps starts with
\* a zeroed rlimit (165-168).
RegisterCall(t) ==
  /\ Running
  /\ rpc[t] = "idle"
  /\ fpc = "idle"
  /\ regCalls < MaxRegs
  /\ regCalls' = regCalls + 1
  /\ rpc' = [rpc EXCEPT ![t] = "getrlimit"]
  /\ limit' = [limit EXCEPT ![t] = [cur |-> 0, max |-> 0]]
  /\ regResult' = [regResult EXCEPT ![t] = NoResult]
  /\ rtrace' = [rtrace EXCEPT ![t] = <<>>]
  /\ hookAtCall' = [hookAtCall EXCEPT ![t] = hook]
  /\ limitsAtCall' = [limitsAtCall EXCEPT ![t] = <<soft, hard>>]
  /\ UNCHANGED <<default_panic, regOk, procVars, faultVars>>

\* check(getrlimit(RLIMIT_CORE, &mut limit), -1).ctx(..)? (170-171)

GetrlimitRetrying(t) ==
  /\ Running
  /\ rpc[t] = "getrlimit"
  /\ \E ok \in BOOLEAN :
       /\ RLog(t, "getrlimit", ok)
       /\ IF ok
            THEN /\ limit' = [limit EXCEPT ![t] = [cur |-> soft, max |-> hard]]
                 /\ rpc' = [rpc EXCEPT ![t] = "check_limit"]
            ELSE UNCHANGED <<limit, rpc>>
       /\ UNCHANGED regResult
  /\ UNCHANGED <<default_panic, hookAtCall, limitsAtCall, regCalls,
                 regOk, procVars, faultVars>>

Getrlimit(t) ==
  /\ Running
  /\ rpc[t] = "getrlimit"
  /\ \E ok \in BOOLEAN :
       /\ RLog(t, "getrlimit", ok)
       /\ IF ok
            THEN /\ limit' = [limit EXCEPT ![t] = [cur |-> soft, max |-> hard]]
                 /\ rpc' = [rpc EXCEPT ![t] = "check_limit"]
                 /\ UNCHANGED regResult
            ELSE /\ RegReturn(t, Err(CtxRetrieveLimit, ErrOs))
                 /\ UNCHANGED limit
  /\ UNCHANGED <<default_panic, hookAtCall, limitsAtCall, regCalls,
                 regOk, procVars, faultVars>>

\* if limit.rlim_max == 0 { Err(..)? }  limit.rlim_cur = limit.rlim_max (176-184)
CheckHardLimitMissing(t) ==
  /\ Running
  /\ rpc[t] = "check_limit"
  /\ limit' = [limit EXCEPT ![t].cur = limit[t].max]
  /\ rpc' = [rpc EXCEPT ![t] = "setrlimit"]
  /\ UNCHANGED <<regResult, rtrace, default_panic, hookAtCall, limitsAtCall,
                 regCalls, regOk, procVars, faultVars>>

CheckHardLimitNoRaise(t) ==
  /\ Running
  /\ rpc[t] = "check_limit"
  /\ IF limit[t].max = 0
       THEN /\ RegReturn(t, Err(CtxAdjustLimit, ErrHardZero))
       ELSE /\ rpc' = [rpc EXCEPT ![t] = "setrlimit"]
            /\ UNCHANGED regResult
  /\ UNCHANGED <<limit, rtrace, default_panic, hookAtCall, limitsAtCall,
                 regCalls, regOk, procVars, faultVars>>


CheckHardLimitOsError(t) ==
  /\ Running
  /\ rpc[t] = "check_limit"
  /\ IF limit[t].max = 0
       THEN /\ RegReturn(t, Err(CtxAdjustLimit, ErrOs))
            /\ UNCHANGED limit
       ELSE /\ limit' = [limit EXCEPT ![t].cur = limit[t].max]
            /\ rpc' = [rpc EXCEPT ![t] = "setrlimit"]
            /\ UNCHANGED regResult
  /\ UNCHANGED <<rtrace, default_panic, hookAtCall, limitsAtCall, regCalls,
                 regOk, procVars, faultVars>>

CheckHardLimit(t) ==
  /\ Running
  /\ rpc[t] = "check_limit"
  /\ IF limit[t].max = 0
       THEN /\ RegReturn(t, Err(CtxAdjustLimit, ErrHardZero))
            /\ UNCHANGED limit
       ELSE /\ limit' = [limit EXCEPT ![t].cur = limit[t].max]
            /\ rpc' = [rpc EXCEPT ![t] = "setrlimit"]
            /\ UNCHANGED regResult
  /\ UNCHANGED <<rtrace, default_panic, hookAtCall, limitsAtCall, regCalls,
                 regOk, procVars, faultVars>>

\* check(setrlimit(RLIMIT_CORE, &limit), -1).ctx(..)? (188-189); setrlimit
\* stores both fields of the struct; a failed call stores nothing.
SetrlimitUnchecked(t) ==
  /\ Running
  /\ rpc[t] = "setrlimit"
  /\ \E ok \in BOOLEAN :
       /\ RLog(t, "setrlimit", ok)
       /\ IF ok
            THEN /\ soft' = limit[t].cur
                 /\ hard' = limit[t].max
            ELSE UNCHANGED <<soft, hard>>
       /\ rpc' = [rpc EXCEPT ![t] = "take_hook"]
       /\ UNCHANGED regResult
  /\ UNCHANGED <<limit, default_panic, hookAtCall, limitsAtCall, regCalls,
                 regOk, hook, cwd, pid, sigquit, exit, faultVars>>

Setrlimit(t) ==
  /\ Running
  /\ rpc[t] = "setrlimit"
  /\ \E ok \in BOOLEAN :
       /\ RLog(t, "setrlimit", ok)
       /\ IF ok
            THEN /\ soft' = limit[t].cur
                 /\ hard' = limit[t].max
                 /\ rpc' = [rpc EXCEPT ![t] = "take_hook"]
                 /\ UNCHANGED regResult
            ELSE /\ RegReturn(t, Err(CtxAdjustLimit, ErrOs))
                 /\ UNCHANGED <<soft, hard>>
  /\ UNCHANGED <<limit, default_panic, hookAtCall, limitsAtCall, regCalls,
                 regOk, hook, cwd, pid, sigquit, exit, faultVars>>

\* let default_panic = take_hook(); (212): the installed hook is moved out
\* and the runtime's default is left in its place.

TakeHookKeepingInstalled(t) ==
  /\ Running
  /\ rpc[t] = "take_hook"
  /\ RLog(t, "take_hook", TRUE)
  /\ default_panic' = [default_panic EXCEPT ![t] = hook]
  /\ rpc' = [rpc EXCEPT ![t] = "set_hook"]
  /\ UNCHANGED <<limit, regResult, hookAtCall, limitsAtCall, regCalls,
                 regOk, procVars, faultVars>>

TakeHook(t) ==
  /\ Running
  /\ rpc[t] = "take_hook"
  /\ RLog(t, "take_hook", TRUE)
  /\ default_panic' = [default_panic EXCEPT ![t] = hook]
  /\ hook' = DefaultHook
  /\ rpc' = [rpc EXCEPT ![t] = "set_hook"]
  /\ UNCHANGED <<limit, regResult, hookAtCall, limitsAtCall, regCalls,
                 regOk, soft, hard, cwd, pid, sigquit, exit, faultVars>>

\* set_hook(Box::new(move |panic_info| { .. })); Ok(()) (214-226)
SetHook(t) ==
  /\ Running
  /\ rpc[t] = "set_hook"
  /\ RLog(t, "set_hook", TRUE)
  /\ hook' = Wrap(default_panic[t])
  /\ RegReturn(t, OkResult)
  /\ regOk' = regOk + 1
  /\ UNCHANGED <<limit, default_panic, hookAtCall, limitsAtCall, regCalls,
                 soft, hard, cwd, pid, sigquit, exit, faultVars>>

Register(t) ==
  \/ RegisterCall(t)
  \/ Getrlimit(t)
  \/ CheckHardLimit(t)
  \/ Setrlimit(t)
  \/ TakeHook(t)
  \/ SetHook(t)


\* --------------------------------------------------- the panic hook (214-224)
Log(e) == trace' = Append(trace, e)

\* A panic: the runtime invokes the installed hook.  The first event of the
\* trace carries the number of registrations that had succeeded by then.
Panic ==
  /\ Running
  /\ fpc = "idle"
  /\ \A t \in Threads : rpc[t] = "idle"
  /\ faults < MaxFaults
  /\ fhook' = hook
  /\ flevel' = hook.depth
  /\ fpc' = "hook"
  /\ trace' = <<Ev("panic", TRUE, hook.base, regOk, hook.depth)>>
  /\ stderr' = <<>>
  /\ UNCHANGED <<cur_dir, kpid, coreResult, cwd0, dumpResult, faults,
                 procVars, regVars>>

\* default_panic(panic_info); (215): the closure calls the hook it captured.
CallDefaultPanicSkipped ==
  /\ Running
  /\ fpc = "hook"
  /\ flevel > 0
  /\ flevel' = flevel - 1
  /\ fpc' = "after"
  /\ UNCHANGED <<fhook, cur_dir, kpid, coreResult, cwd0, dumpResult, stderr,
                 trace, faults, procVars, regVars>>

CallDefaultPanic ==
  /\ Running
  /\ fpc = "hook"
  /\ flevel > 0
  /\ flevel' = flevel - 1
  /\ UNCHANGED <<fpc, fhook, cur_dir, kpid, coreResult, cwd0, dumpResult,
                 stderr, trace, faults, procVars, regVars>>

\* The innermost captured hook, the one take_hook() handed out at the first
\* registration (212), runs and returns.
RunPreviousHandler ==
  /\ Running
  /\ fpc = "hook"
  /\ flevel = 0
  /\ Log(Ev("previous", TRUE, fhook.base, 0, 0))
  /\ fpc' = "after"
  /\ UNCHANGED <<fhook, flevel, cur_dir, kpid, coreResult, cwd0, dumpResult,
                 stderr, faults, procVars, regVars>>

\* dump_core_and_quit(&temp_dir()) (221): the closure one level up goes on
\* after the hook it captured has returned.
DumpCoreAndQuitCall ==
  /\ Running
  /\ fpc = "after"
  /\ flevel < fhook.depth
  /\ flevel' = flevel + 1
  /\ fpc' = "current_dir"
  /\ cwd0' = cwd
  /\ dumpResult' = NoResult
  /\ coreResult' = NoResult
  /\ Log(Ev("dump_core_and_quit", TRUE, TempDir, 0, flevel + 1))
  /\ UNCHANGED <<fhook, cur_dir, kpid, stderr, faults, procVars, regVars>>

\* let cur_dir = current_dir().map_err(..).ctx(..)?; (137-139)

CurrentDirUnchecked ==
  /\ Running
  /\ fpc = "current_dir"
  /\ \E ok \in BOOLEAN :
       /\ Log(Ev("current_dir", ok, cwd, 0, flevel))
       /\ cur_dir' = IF ok THEN cwd ELSE cur_dir
       /\ fpc' = "set_current_dir"
  /\ UNCHANGED <<fhook, flevel, kpid, coreResult, cwd0, dumpResult, stderr,
                 faults, procVars, regVars>>

CurrentDir ==
  /\ Running
  /\ fpc = "current_dir"
  /\ \E ok \in BOOLEAN :
       /\ Log(Ev("current_dir", ok, cwd, 0, flevel))
       /\ IF ok
            THEN /\ cur_dir' = cwd
                 /\ fpc' = "set_current_dir"
                 /\ UNCHANGED dumpResult
            ELSE /\ dumpResult' = Err(CtxCurrentDir, ErrIo)
                 /\ fpc' = "dump_returned"
                 /\ UNCHANGED cur_dir
  /\ UNCHANGED <<fhook, flevel, kpid, coreResult, cwd0, stderr, faults,
                 procVars, regVars>>

\* set_current_dir(dir).map_err(..).ctx(..)?; (141-143)
SetCurrentDirUnchecked ==
  /\ Running
  /\ fpc = "set_current_dir"
  /\ \E ok \in BOOLEAN :
       /\ Log(Ev("set_current_dir", ok, TempDir, 0, flevel))
       /\ cwd' = IF ok THEN TempDir ELSE cwd
       /\ fpc' = "dump_core"
  /\ UNCHANGED <<fhook, flevel, cur_dir, kpid, coreResult, cwd0, dumpResult,
                 stderr, faults, soft, hard, hook, pid, sigquit, exit,
                 regVars>>

SetCurrentDirRestoring ==
  /\ Running
  /\ fpc = "set_current_dir"
  /\ \E ok \in BOOLEAN :
       /\ Log(Ev("set_current_dir", ok, TempDir, 0, flevel))
       /\ IF ok
            THEN /\ cwd' = TempDir
                 /\ fpc' = "dump_core"
                 /\ UNCHANGED coreResult
            ELSE /\ coreResult' = Err(CtxChangeDir, ErrIo)
                 /\ fpc' = "restore"
                 /\ UNCHANGED cwd
  /\ UNCHANGED <<fhook, flevel, cur_dir, kpid, cwd0, dumpResult, stderr,
                 faults, soft, hard, hook, pid, sigquit, exit, regVars>>

SetCurrentDir ==
  /\ Running
  /\ fpc = "set_current_dir"
  /\ \E ok \in BOOLEAN :
       /\ Log(Ev("set_current_dir", ok, TempDir, 0, flevel))
       /\ IF ok
            THEN /\ cwd' = TempDir
                 /\ fpc' = "dump_core"
                 /\ UNCHANGED dumpResult
            ELSE /\ dumpResult' = Err(CtxChangeDir, ErrIo)
                 /\ fpc' = "dump_returned"
                 /\ UNCHANGED cwd
  /\ UNCHANGED <<fhook, flevel, cur_dir, kpid, coreResult, cwd0, stderr,
                 faults, soft, hard, hook, pid, sigquit, exit, regVars>>

\* dump_core: let pid = pid(); let pid = pid.try_into()..ctx(..)?; (116-122)

PidTryIntoNoRestore ==
  /\ Running
  /\ fpc = "dump_core"
  /\ LET r == TryInto(pid) IN
       /\ Log(Ev("try_into", r.ok, "", r.val, flevel))
       /\ IF r.ok
            THEN /\ kpid' = r.val
                 /\ fpc' = "kill"
                 /\ UNCHANGED <<coreResult, dumpResult>>
            ELSE /\ coreResult' = Err(CtxPid, ErrInt)
                 /\ dumpResult' = Err(CtxPid, ErrInt)
                 /\ fpc' = "dump_returned"
                 /\ UNCHANGED kpid
  /\ UNCHANGED <<fhook, flevel, cur_dir, cwd0, stderr, faults,
                 procVars, regVars>>

PidTryInto ==
  /\ Running
  /\ fpc = "dump_core"
  /\ LET r == TryInto(pid) IN
       /\ Log(Ev("try_into", r.ok, "", r.val, flevel))
       /\ IF r.ok
            THEN /\ kpid' = r.val
                 /\ fpc' = "kill"
                 /\ UNCHANGED coreResult
            ELSE /\ coreResult' = Err(CtxPid, ErrInt)
                 /\ fpc' = "restore"
                 /\ UNCHANGED kpid
  /\ UNCHANGED <<fhook, flevel, cur_dir, cwd0, dumpResult, stderr, faults,
                 procVars, regVars>>

\* dump_core: check(kill(pid, SIGQUIT), -1).ctx(..)?; Ok(()) (124-125).
\* A delivered SIGQUIT terminates the process under its default disposition;
\* an ignored SIGQUIT is discarded and kill still returns 0.
KillNullSignal ==
  /\ Running
  /\ fpc = "kill"
  /\ \E ok \in BOOLEAN :
       /\ Log(Ev("kill", ok, "0", kpid, flevel))
       /\ IF ok
            THEN /\ coreResult' = OkResult
                 /\ fpc' = "core_ok"
            ELSE /\ coreResult' = Err(CtxKill, ErrOs)
                 /\ fpc' = "restore"
  /\ UNCHANGED <<fhook, flevel, cur_dir, kpid, cwd0, dumpResult, stderr,
                 faults, procVars, regVars>>


KillSkippingRestore ==
  /\ Running
  /\ fpc = "kill"
  /\ \E ok \in BOOLEAN :
       /\ Log(Ev("kill", ok, "SIGQUIT", kpid, flevel))
       /\ IF ~ok
            THEN /\ coreResult' = Err(CtxKill, ErrOs)
                 /\ dumpResult' = Err(CtxKill, ErrOs)
                 /\ fpc' = "dump_returned"
                 /\ UNCHANGED exit
            ELSE IF sigquit = "default"
                   THEN /\ exit' = "SIGQUIT"
                        /\ UNCHANGED <<coreResult, dumpResult, fpc>>
                   ELSE /\ coreResult' = OkResult
                        /\ fpc' = "core_ok"
                        /\ UNCHANGED <<exit, dumpResult>>
  /\ UNCHANGED <<fhook, flevel, cur_dir, kpid, cwd0, stderr,
                 faults, soft, hard, hook, cwd, pid, sigquit, regVars>>

Kill ==
  /\ Running
  /\ fpc = "kill"
  /\ \E ok \in BOOLEAN :
       /\ Log(Ev("kill", ok, "SIGQUIT", kpid, flevel))
       /\ IF ~ok
            THEN /\ coreResult' = Err(CtxKill, ErrOs)
                 /\ fpc' = "restore"
                 /\ UNCHANGED exit
            ELSE IF sigquit = "default"
                   THEN /\ exit' = "SIGQUIT"
                        /\ UNCHANGED <<coreResult, fpc>>
                   ELSE /\ coreResult' = OkResult
                        /\ fpc' = "core_ok"
                        /\ UNCHANGED exit
  /\ UNCHANGED <<fhook, flevel, cur_dir, kpid, cwd0, dumpResult, stderr,
                 faults, soft, hard, hook, cwd, pid, sigquit, regVars>>

\* if let Err(err) = dump_core() { let _ = set_current_dir(cur_dir);
\* Err(err) } (145-152)
RestoreDirPropagating ==
  /\ Running
  /\ fpc = "restore"
  /\ \E ok \in BOOLEAN :
       /\ Log(Ev("restore", ok, cur_dir, 0, flevel))
       /\ cwd' = IF ok THEN cur_dir ELSE cwd
       /\ dumpResult' = IF ok THEN coreResult ELSE Err(CtxChangeDir, ErrIo)
  /\ fpc' = "dump_returned"
  /\ UNCHANGED <<fhook, flevel, cur_dir, kpid, coreResult, cwd0, stderr,
                 faults, soft, hard, hook, pid, sigquit, exit, regVars>>

RestoreDir ==
  /\ Running
  /\ fpc = "restore"
  /\ \E ok \in BOOLEAN :
       /\ Log(Ev("restore", ok, cur_dir, 0, flevel))
       /\ cwd' = IF ok THEN cur_dir ELSE cwd
  /\ dumpResult' = coreResult
  /\ fpc' = "dump_returned"
  /\ UNCHANGED <<fhook, flevel, cur_dir, kpid, coreResult, cwd0, stderr,
                 faults, soft, hard, hook, pid, sigquit, exit, regVars>>

\* } else { Ok(()) } (153-155)
DumpReturnOk ==
  /\ Running
  /\ fpc = "core_ok"
  /\ dumpResult' = OkResult
  /\ fpc' = "dump_returned"
  /\ UNCHANGED <<fhook, flevel, cur_dir, kpid, coreResult, cwd0, stderr,
                 trace, faults, procVars, regVars>>

\* if let Err((ctx, err)) = dump_core_and_quit(..) { eprintln!(..) } (221-223)

ReportErrorAborting ==
  /\ Running
  /\ fpc = "dump_returned"
  /\ ~dumpResult.ok
  /\ stderr' = Append(stderr, dumpResult)
  /\ Log(Ev("eprintln", TRUE, dumpResult.ctx, 0, flevel))
  /\ exit' = "SIGABRT"
  /\ UNCHANGED <<fpc, fhook, flevel, cur_dir, kpid, coreResult, cwd0,
                 dumpResult, faults, soft, hard, hook, cwd, pid, sigquit,
                 regVars>>

ReportError ==
  /\ Running
  /\ fpc = "dump_returned"
  /\ ~dumpResult.ok
  /\ stderr' = Append(stderr, dumpResult)
  /\ Log(Ev("eprintln", TRUE, dumpResult.ctx, 0, flevel))
  /\ fpc' = "after"
  /\ UNCHANGED <<fhook, flevel, cur_dir, kpid, coreResult, cwd0, dumpResult,
                 faults, procVars, regVars>>

\* The Ok(()) of dump_core_and_quit matches no arm: the closure just ends.
NoReport ==
  /\ Running
  /\ fpc = "dump_returned"
  /\ dumpResult.ok
  /\ fpc' = "after"
  /\ UNCHANGED <<fhook, flevel, cur_dir, kpid, coreResult, cwd0, dumpResult,
                 stderr, trace, faults, procVars, regVars>>

\* The outermost hook returns to the panic runtime.
HookReturn ==
  /\ Running
  /\ fpc = "after"
  /\ flevel = fhook.depth
  /\ fpc' = "idle"
  /\ faults' = faults + 1
  /\ UNCHANGED <<fhook, flevel, cur_dir, kpid, coreResult, cwd0, dumpResult,
                 stderr, trace, procVars, regVars>>

Fault ==
  \/ Panic
  \/ CallDefaultPanic
  \/ RunPreviousHandler
  \/ DumpCoreAndQuitCall
  \/ CurrentDir
  \/ SetCurrentDir
  \/ PidTryInto
  \/ Kill
  \/ RestoreDir
  \/ DumpReturnOk
  \/ ReportError
  \/ NoReport
  \/ HookReturn

\* The sequential program: one thread registers, panics are handled one at
\* a time.
Next == (\E t \in MainThread : Register(t)) \/ Fault

Spec == Init /\ [][Next]_vars

\* ---------------------------------------------------------------- helpers
Events == DOMAIN trace
Called(o, l) == {i \in Events : trace[i].op = o /\ trace[i].lvl = l}
Failed(o, l) == {i \in Called(o, l) : ~trace[i].ok}
Count(o) == Cardinality({i \in Events : trace[i].op = o})
Levels == 1..fhook.depth

\* The steps of the dump trigger.
DumpOps == {"dump_core_and_quit", "current_dir", "set_current_dir",
            "try_into", "kill", "restore"}

RCalled(t, o) == {i \in DOMAIN rtrace[t] : rtrace[t][i].op = o}
RFailed(t, o) == {i \in RCalled(t, o) : ~rtrace[t][i].ok}
Started(t) == rpc[t] # "idle" \/ regResult[t] # NoResult
Returned(t) == rpc[t] = "idle" /\ regResult[t] # NoResult
HookUntouched(t) ==
  /\ hook = hookAtCall[t]
  /\ RCalled(t, "take_hook") = {}
  /\ RCalled(t, "set_hook") = {}

\* The hook has finished with the panic: it returned, or the process died.
FaultOver == trace # <<>> /\ (fpc = "idle" \/ exit # "running")

\* ------------------------------------------------------------------ claims

\* C1: once register_panic_handler has succeeded, on every panic the handler
\* that was installed before the registration has run, and has finished,
\* before any step of the dump trigger (call, working-directory snapshot,
\* directory change, PID conversion, SIGQUIT delivery, restore) begins; and
\* the installed hook is the closure around exactly that handler.
C1_PreviousBeforeDump ==
  /\ \A i \in Events :
       trace[i].op \in DumpOps =>
         /\ \E j \in 1..(i - 1) :
              trace[j].op = "previous" /\ trace[j].arg = trace[1].arg
         /\ \A k \in i..Len(trace) : trace[k].lvl >= trace[i].lvl
  /\ \A t \in MainThread :
       (Returned(t) /\ regResult[t].ok) =>
         /\ hook.base = hookAtCall[t].base
         /\ hook.depth = hookAtCall[t].depth + 1

C1_Witness ==
  /\ trace # <<>>
  /\ trace[1].val = 1
  /\ trace[1].arg = "user"
  /\ Called("kill", 1) # {}

\* C2: a registration that finds the hard limit zero fails and leaves the
\* installed hook alone (neither take_hook nor set_hook is performed); the
\* failure is the hard-limit-is-zero error whenever getrlimit delivered
\* the limit.
C2_ZeroHardLimit ==
  \A t \in Threads :
    (Started(t) /\ limitsAtCall[t][2] = 0) =>
      /\ HookUntouched(t)
      /\ Returned(t) =>
           /\ ~regResult[t].ok
           /\ RFailed(t, "getrlimit") = {} =>
                regResult[t] = Err(CtxAdjustLimit, ErrHardZero)

C2_Witness ==
  /\ Returned(1)
  /\ regResult[1] = Err(CtxAdjustLimit, ErrHardZero)
  /\ limitsAtCall[1][2] = 0
  /\ hook = UserHook

\* C3: when getrlimit or setrlimit fails, register_panic_handler returns
\* that error and the hook installed before the call is still installed:
\* take_hook and set_hook were not performed.
C3_LimitCallFails ==
  \A t \in Threads :
    /\ RFailed(t, "getrlimit") # {} =>
         /\ Returned(t)
         /\ regResult[t] = Err(CtxRetrieveLimit, ErrOs)
         /\ HookUntouched(t)
    /\ RFailed(t, "setrlimit") # {} =>
         /\ Returned(t)
         /\ regResult[t] = Err(CtxAdjustLimit, ErrOs)
         /\ HookUntouched(t)

C3_Witness ==
  /\ RFailed(1, "setrlimit") # {}
  /\ Returned(1)
  /\ hook = UserHook

\* C4: when kill fails, dump_core_and_quit attempts to set the working
\* directory back to the directory it was entered in, ignores the outcome of
\* that attempt and returns the error of kill; if the attempt succeeded the
\* working directory is the one from before the trigger.
C4_RestoreOnKillFailure ==
  \A l \in Levels :
    Failed("kill", l) # {} =>
      IF flevel = l /\ fpc = "restore"
        THEN coreResult = Err(CtxKill, ErrOs)
        ELSE \E i \in Called("restore", l) :
               /\ \A c \in Called("current_dir", l) : trace[i].arg = trace[c].arg
               /\ flevel = l =>
                    /\ trace[i].arg = cwd0
                    /\ dumpResult = Err(CtxKill, ErrOs)
                    /\ (fpc = "dump_returned" /\ trace[i].ok) => cwd = cwd0

C4_Witness ==
  /\ fpc = "dump_returned"
  /\ Failed("kill", flevel) # {}
  /\ \E i \in Called("restore", flevel) : trace[i].ok
  /\ cwd0 # TempDir
  /\ cwd = cwd0

\* C5: when the change to the scratch directory fails, dump_core_and_quit
\* returns the directory-change error at once: neither the PID conversion
\* nor kill is performed in that invocation.
C5_ChdirFailureNoKill ==
  \A l \in Levels :
    Failed("set_current_dir", l) # {} =>
      /\ Called("kill", l) = {}
      /\ Called("try_into", l) = {}
      /\ flevel = l => fpc \in {"dump_returned", "after", "idle"}
      /\ (flevel = l /\ fpc = "dump_returned") =>
           dumpResult = Err(CtxChangeDir, ErrIo)

C5_Witness ==
  /\ fpc = "dump_returned"
  /\ Failed("set_current_dir", flevel) # {}
  /\ dumpResult = Err(CtxChangeDir, ErrIo)


\* C6 as stated: with two successful registrations, every panic runs the
\* original handler once and dump_core_and_quit twice.
C6_Original ==
  (FaultOver /\ trace[1].val = 2) =>
    /\ Count("previous") = 1
    /\ Count("dump_core_and_quit") = 2

\* C6 as amended: with two successful registrations, every panic runs the
\* original handler exactly once; dump_core_and_quit runs a second time
\* exactly when its first invocation returned, and only once when the first
\* invocation ended the process with SIGQUIT.
C6_TwiceRegistered ==
  (FaultOver /\ trace[1].val = 2) =>
    /\ Count("previous") = 1
    /\ trace[2].op = "previous" /\ trace[2].arg = trace[1].arg
    /\ Count("dump_core_and_quit") =
         IF exit = "SIGQUIT" /\ flevel = 1 THEN 1 ELSE 2

C6_Witness ==
  /\ FaultOver
  /\ trace[1].val = 2
  /\ exit = "running"
  /\ Count("previous") = 1
  /\ Count("dump_core_and_quit") = 2

\* C7 as stated: a successful kill ends the process with SIGQUIT, and
\* dump_core_and_quit never returns Ok(()).
C7_Original ==
  /\ \A l \in Levels :
       (Called("kill", l) # {} /\ Failed("kill", l) = {}) => exit = "SIGQUIT"
  /\ fpc = "dump_returned" => ~dumpResult.ok

\* C7 as amended: a successful kill ends the process with SIGQUIT, before
\* dump_core_and_quit returns, whenever SIGQUIT has its default disposition;
\* the process ends in no other way; dump_core_and_quit returns Ok(()) only
\* after a successful kill whose SIGQUIT was discarded, and returns an error
\* otherwise.
C7_SignalTerminates ==
  /\ \A l \in Levels :
       (Called("kill", l) # {} /\ Failed("kill", l) = {} /\ sigquit = "default") =>
         /\ exit = "SIGQUIT"
         /\ flevel = l /\ fpc = "kill"
         /\ trace[Len(trace)].op = "kill"
  /\ exit # "running" =>
       /\ exit = "SIGQUIT"
       /\ Called("kill", flevel) # {} /\ Failed("kill", flevel) = {}
  /\ (fpc = "dump_returned" /\ dumpResult.ok) =>
       /\ sigquit = "ignored"
       /\ Called("kill", flevel) # {} /\ Failed("kill", flevel) = {}
  /\ (fpc = "dump_returned" /\ ~dumpResult.ok) =>
       \E o \in {"current_dir", "set_current_dir", "try_into", "kill"} :
         Failed(o, flevel) # {}

C7_Witness ==
  /\ exit = "SIGQUIT"
  /\ sigquit = "default"
  /\ trace[Len(trace)].op = "kill"
  /\ trace[Len(trace)].ok

\* C8 as stated: a PID at or above i32::MAX makes dump_core fail with the
\* integer-conversion error, and kill is not reached.
C8_Original ==
  AtOrAboveI32Max(pid) =>
    \A l \in Levels :
      /\ Called("kill", l) = {}
      /\ Called("try_into", l) = Failed("try_into", l)

\* C8 as amended: a PID above i32::MAX (the largest pid_t) makes dump_core
\* fail with the integer-conversion error and kill is not called; a PID up
\* to and including i32::MAX converts, and kill always receives the value
\* of the PID itself, never a wrapped or truncated one.
C8_PidConversion ==
  \A l \in Levels :
    /\ \A i \in Called("try_into", l) :
         /\ trace[i].ok <=> ~AboveI32Max(pid)
         /\ (~trace[i].ok /\ i = Len(trace)) =>
              /\ fpc = "restore"
              /\ coreResult = Err(CtxPid, ErrInt)
    /\ \A i \in Called("kill", l) :
         /\ ~AboveI32Max(pid)
         /\ trace[i].val = pid.hi * Half + pid.lo
         /\ trace[i].val >= 0 /\ trace[i].val <= I32Max
    /\ (Failed("try_into", l) # {} /\ flevel = l /\ fpc = "dump_returned") =>
         dumpResult = Err(CtxPid, ErrInt)

C8_Witness ==
  /\ pid = U32(32768, 0)
  /\ fpc = "dump_returned"
  /\ dumpResult = Err(CtxPid, ErrInt)

\* C9: a registration that succeeds leaves the soft limit equal to the hard
\* limit; the soft limit never exceeds the hard limit, and the hard limit
\* always has the value it had when the registration was called.
C9_SoftRaisedToHard ==
  /\ soft <= hard
  /\ \A t \in MainThread :
       /\ Started(t) => hard = limitsAtCall[t][2]
       /\ (RCalled(t, "setrlimit") # {} /\ RFailed(t, "setrlimit") = {}) =>
            soft = hard
       /\ (Returned(t) /\ regResult[t].ok) =>
            soft = hard /\ hard > 0

C9_Witness ==
  /\ Returned(1)
  /\ regResult[1].ok
  /\ limitsAtCall[1][1] < limitsAtCall[1][2]
  /\ soft = hard
  /\ regCalls = 1

\* C10 as stated: the working directory is set back only after a failed
\* kill.
C10_Original ==
  \A l \in Levels :
    Called("restore", l) # {} => Failed("kill", l) # {}

\* C10 as amended: the working directory is set back exactly when dump_core
\* failed, that is after a failed PID conversion or a failed kill; it is not
\* set back after a failed snapshot, a failed directory change or a
\* successful kill.
C10_RestoreOnlyOnDumpCoreFailure ==
  \A l \in Levels :
    /\ \A i \in Called("restore", l) :
         \E j \in 1..(i - 1) :
           /\ trace[j].lvl = l
           /\ trace[j].op \in {"try_into", "kill"}
           /\ ~trace[j].ok
    /\ Cardinality(Called("restore", l)) <= 1
    /\ (Failed("current_dir", l) # {} \/ Failed("set_current_dir", l) # {}) =>
         Called("restore", l) = {}
    /\ (Called("kill", l) # {} /\ Failed("kill", l) = {}) =>
         Called("restore", l) = {}
    /\ (flevel = l /\ fpc = "dump_returned" /\ dumpResult.ok) => cwd = TempDir

C10_Witness ==
  /\ fpc = "dump_returned"
  /\ Failed("try_into", flevel) # {}
  /\ Called("kill", flevel) = {}
  /\ \E i \in Called("restore", flevel) : trace[i].ok /\ cwd = trace[i].arg
  /\ cwd # TempDir

\* The closure at level l has finished its dump trigger and what follows it.
LevelDone(l) == flevel > l \/ (flevel = l /\ fpc \in {"after", "idle"})
\* The dump trigger of level l failed at one of its calls.
DumpFailedAt(l) ==
  \E o \in {"current_dir", "set_current_dir", "try_into", "kill"} :
    Failed(o, l) # {}
\* The context of the error a failed call of the dump trigger produces.
CtxOf(o) ==
  CASE o = "current_dir" -> CtxCurrentDir
    [] o = "set_current_dir" -> CtxChangeDir
    [] o = "try_into" -> CtxPid
    [] o = "kill" -> CtxKill

\* C11: every failed invocation of the dump trigger inside the hook is
\* written to standard error exactly once, with the context of the call that
\* failed, and is then dropped: the invocation is not repeated, nothing is
\* written for an invocation that did not fail, the closure carries on to
\* its end with the process still running, and the process is never ended
\* by anything but the SIGQUIT of kill.
C11_FailureReportedOnce ==
  /\ Len(stderr) = Count("eprintln")
  /\ \A l \in Levels :
       /\ Cardinality(Called("dump_core_and_quit", l)) <= 1
       /\ Cardinality(Called("eprintln", l)) <= 1
       /\ Called("eprintln", l) # {} => DumpFailedAt(l)
       /\ (LevelDone(l) /\ DumpFailedAt(l)) =>
            \E i \in Called("eprintln", l) :
              /\ \E o \in {"current_dir", "set_current_dir", "try_into", "kill"} :
                   Failed(o, l) # {} /\ trace[i].arg = CtxOf(o)
              /\ \E k \in DOMAIN stderr :
                   /\ stderr[k].ctx = trace[i].arg
                   /\ k = Cardinality({j \in 1..i : trace[j].op = "eprintln"})
       /\ (flevel = l /\ fpc = "after" /\ DumpFailedAt(l)) =>
            /\ exit = "running"
            /\ trace[Len(trace)].op = "eprintln"
  /\ exit # "running" =>
       /\ exit = "SIGQUIT"
       /\ trace[Len(trace)].op = "kill" /\ trace[Len(trace)].ok

C11_Witness ==
  /\ fpc = "idle"
  /\ exit = "running"
  /\ fhook.depth = 1
  /\ DumpFailedAt(1)
  /\ Len(stderr) = 1
  /\ Count("eprintln") = 1
  /\ faults = 1

\* The code of the hook runs on once it was entered: a step of the hook
\* that can be taken is taken.  Panics and registrations are not forced.
HookStep == fpc # "idle" /\ Fault
FairSpec == Spec /\ WF_vars(HookStep)

\* The states of one panic, read off the trace.
Before(i, j) == i < j
OkCalls(o, l) == Called(o, l) \ Failed(o, l)
ProcessTerminated == exit = "SIGQUIT"
ErrorReported(l) == Called("eprintln", l) # {}

\* C12 as stated: a panic handled by the once-registered hook has gone
\* through HandlerInvoked, PreviousHandlerRan, DirectorySwapped and
\* SignalSent, in that order, and has ended in exactly one of
\* ProcessTerminated and ErrorReported.
C12_Original ==
  (FaultOver /\ trace[1].val = 1 /\ fhook.depth = 1) =>
    /\ trace[1].op = "panic"
    /\ \E p \in Called("previous", 0) :
         \E d \in OkCalls("set_current_dir", 1) :
           \E k \in Called("kill", 1) : Before(p, d) /\ Before(d, k)
    /\ ProcessTerminated # ErrorReported(1)

\* Order of the states of the dump trigger of level l within the trace.
C12_Order(l) ==
  /\ \A d \in Called("set_current_dir", l) :
       /\ \E p \in Called("previous", 0) : Before(p, d)
       /\ \E c \in OkCalls("current_dir", l) : Before(c, d)
  /\ \A k \in Called("kill", l) :
       \E d \in OkCalls("set_current_dir", l) : Before(d, k)
  /\ \A k \in Failed("kill", l) :
       /\ \A r \in Called("restore", l) : Before(k, r)
       /\ \A e \in Called("eprintln", l) :
            \E r \in Called("restore", l) : Before(k, r) /\ Before(r, e)
  /\ ErrorReported(l) => DumpFailedAt(l)
  /\ OkCalls("kill", l) # {} => ~ErrorReported(l)

\* How the hook can end: the process was terminated by SIGQUIT, or the
\* outermost closure reported an error, or its kill succeeded without ending
\* the process and nothing was reported.
C12_Terminal ==
  FaultOver =>
    /\ trace[1].op = "panic"
    /\ Called("previous", 0) = {2}
    /\ fhook.depth >= 1 =>
         \/ /\ ProcessTerminated
            /\ ~ErrorReported(flevel)
            /\ OkCalls("kill", flevel) # {}
         \/ /\ ~ProcessTerminated
            /\ flevel = fhook.depth
            /\ ErrorReported(flevel)
            /\ DumpFailedAt(flevel)
         \/ /\ ~ProcessTerminated
            /\ flevel = fhook.depth
            /\ ~ErrorReported(flevel)
            /\ OkCalls("kill", flevel) # {}
            /\ sigquit = "ignored"

\* C12 as amended: every panic goes through HandlerInvoked and
\* PreviousHandlerRan; DirectorySwapped and SignalSent come after these, in
\* that order, but only on the runs where the snapshot, the directory change
\* and the PID conversion succeeded; on the delivery-failure branch
\* DirectoryRestored comes after DeliveryFailed and before ErrorReported;
\* ErrorReported is never reached without an earlier failure; and the hook
\* always comes to an end, in ProcessTerminated, in ErrorReported, or after a
\* successful kill whose SIGQUIT did not end the process.
C12_FaultStateMachine ==
  /\ [](C12_Terminal /\ \A l \in Levels : C12_Order(l))
  /\ (fpc = "hook") ~> (fpc = "idle" \/ exit = "SIGQUIT")

C12_Witness ==
  /\ FaultOver
  /\ fhook.depth = 1
  /\ exit = "running"
  /\ Failed("kill", 1) # {}
  /\ Called("restore", 1) # {}
  /\ ErrorReported(1)

\* C13: nothing is retried.  One call of register_panic_handler performs
\* getrlimit, setrlimit, take_hook and set_hook at most once each, and a
\* failed getrlimit or setrlimit is the last call it makes: the error is
\* returned.  One invocation of dump_core_and_quit performs current_dir, the
\* change to the scratch directory, the PID conversion, kill and the restore
\* at most once each; after a failed call only the restore and the one line
\* on standard error follow in that invocation.
C13_NoRetries ==
  /\ \A t \in Threads :
       /\ \A o \in {"getrlimit", "setrlimit", "take_hook", "set_hook"} :
            Cardinality(RCalled(t, o)) <= 1
       /\ \A i \in DOMAIN rtrace[t] :
            ~rtrace[t][i].ok =>
              /\ i = Len(rtrace[t])
              /\ Returned(t)
              /\ ~regResult[t].ok
  /\ \A l \in Levels :
       /\ \A o \in DumpOps \cup {"eprintln"} : Cardinality(Called(o, l)) <= 1
       /\ \A o \in {"current_dir", "set_current_dir", "try_into", "kill"} :
            \A i \in Failed(o, l) :
              /\ \A j \in (i + 1)..Len(trace) :
                   trace[j].lvl = l => trace[j].op \in {"restore", "eprintln"}
              /\ LevelDone(l) => Cardinality(Called("eprintln", l)) = 1
  /\ Len(stderr) = Cardinality({i \in Events : trace[i].op = "eprintln"})

C13_Witness ==
  /\ FaultOver
  /\ exit = "running"
  /\ fhook.depth = 2
  /\ Failed("current_dir", 1) # {}
  /\ Failed("kill", 2) # {}
  /\ Len(stderr) = 2
  /\ Len(rtrace[1]) = 4

\* Why a registration failed, read off the calls it made.
ReadFailed(t) == RFailed(t, "getrlimit") # {}
WriteFailed(t) == RFailed(t, "setrlimit") # {}
ZeroLimit(t) ==
  /\ RCalled(t, "getrlimit") # {}
  /\ ~ReadFailed(t)
  /\ RCalled(t, "setrlimit") = {}
  /\ Returned(t)
  /\ ~regResult[t].ok

\* C14: the value register_panic_handler returns tells the three failures
\* apart: the read failure alone has the retrieve context, the zero hard
\* limit alone has the custom hard-limit-is-zero error, and the write failure
\* has the adjust context (which it shares with the zero hard limit) with the
\* error of the operating system.
C14_FailuresDistinguishable ==
  \A t \in Threads :
    (Returned(t) /\ ~regResult[t].ok) =>
      /\ ReadFailed(t) <=> regResult[t].ctx = CtxRetrieveLimit
      /\ ZeroLimit(t) <=> regResult[t].err = ErrHardZero
      /\ WriteFailed(t) <=>
           (regResult[t].ctx = CtxAdjustLimit /\ regResult[t].err = ErrOs)
      /\ Cardinality({c \in {"read", "zero", "write"} :
           \/ c = "read" /\ ReadFailed(t)
           \/ c = "zero" /\ ZeroLimit(t)
           \/ c = "write" /\ WriteFailed(t)}) = 1

C14_Witness ==
  /\ ZeroLimit(1)
  /\ regResult[1] = Err(CtxAdjustLimit, ErrHardZero)
  /\ regResult[1] # Err(CtxAdjustLimit, ErrOs)
  /\ hook = DefaultHook
  /\ regCalls = 2

\* C15: when current_dir fails, dump_core_and_quit returns the
\* directory-query error at once: the working directory is not changed (it
\* is the one the invocation was entered with), no PID is converted, no
\* signal is sent and nothing is restored.
C15_SnapshotFailure ==
  \A l \in Levels :
    Failed("current_dir", l) # {} =>
      /\ \A o \in {"set_current_dir", "try_into", "kill", "restore"} :
           Called(o, l) = {}
      /\ flevel = l =>
           /\ fpc \in {"dump_returned", "after", "idle"}
           /\ dumpResult = Err(CtxCurrentDir, ErrIo)
           /\ cwd = cwd0
           /\ exit = "running"

C15_Witness ==
  /\ fpc = "dump_returned"
  /\ Failed("current_dir", flevel) # {}
  /\ dumpResult = Err(CtxCurrentDir, ErrIo)
  /\ cwd = "/work"

\* C16: when the PID conversion fails, kill is not called, the error
\* returned is the conversion error with its context, and before
\* dump_core_and_quit returns it attempts to set the working directory, which
\* it had already changed to the scratch directory, back to the snapshot.
C16_PidFailureRestores ==
  \A l \in Levels :
    Failed("try_into", l) # {} =>
      /\ Called("kill", l) = {}
      /\ \E d \in OkCalls("set_current_dir", l) :
           \A i \in Failed("try_into", l) : Before(d, i)
      /\ IF flevel = l /\ fpc = "restore"
           THEN coreResult = Err(CtxPid, ErrInt) /\ cwd = TempDir
           ELSE \E r \in Called("restore", l) :
                  /\ \A i \in Failed("try_into", l) : Before(i, r)
                  /\ \A c \in Called("current_dir", l) :
                       trace[r].arg = trace[c].arg
                  /\ flevel = l =>
                       /\ dumpResult = Err(CtxPid, ErrInt)
                       /\ trace[r].arg = cwd0
                       /\ fpc = "dump_returned" =>
                            cwd = IF trace[r].ok THEN cwd0 ELSE TempDir

C16_Witness ==
  /\ fpc = "dump_returned"
  /\ Failed("try_into", flevel) # {}
  /\ dumpResult = Err(CtxPid, ErrInt)
  /\ \E r \in Called("restore", flevel) : ~trace[r].ok
  /\ cwd0 = "/work"
  /\ cwd = TempDir

\* C18: a call of register_panic_handler that fails leaves the core-size
\* limit pair as it was when the call began: after a failed read and with a
\* zero hard limit setrlimit is not invoked at all, and a failed setrlimit
\* stores nothing.
C18_FailedCallKeepsLimits ==
  \A t \in MainThread :
    /\ (Returned(t) /\ ~regResult[t].ok) =>
         /\ <<soft, hard>> = limitsAtCall[t]
         /\ RCalled(t, "setrlimit") = RFailed(t, "setrlimit")
    /\ (Started(t) /\ (ReadFailed(t) \/ limitsAtCall[t][2] = 0)) =>
         /\ RCalled(t, "setrlimit") = {}
         /\ <<soft, hard>> = limitsAtCall[t]
    /\ WriteFailed(t) => <<soft, hard>> = limitsAtCall[t]

C18_Witness ==
  /\ Returned(1)
  /\ WriteFailed(1)
  /\ limitsAtCall[1] = <<0, 2>>
  /\ soft = 0
  /\ hard = 2

\* Two threads may be inside register_panic_handler at the same time;
\* take_hook and set_hook are each atomic and nothing orders one thread's
\* pair against the other's.
NextRace == (\E t \in Threads : Register(t)) \/ Fault

\* The race is about the hook alone: the environment of the dump trigger is
\* held at one ordinary PID, working directory and soft limit.
InitRace == Init /\ pid = U32(0, 4242) /\ cwd = "/work" /\ soft = 0

SpecRace == InitRace /\ [][NextRace]_vars

\* Both threads have returned Ok(()) from one successful call each.
BothRegistered ==
  /\ regOk = 2
  /\ \A t \in Threads : Returned(t) /\ regResult[t].ok
\* The handler installed before both calls: the first caller saw it.
OriginalBase ==
  IF \E t \in Threads : hookAtCall[t].base = "user" THEN "user" ELSE "default"
\* One call took the hook the other call had installed: the pairs of
\* take_hook and set_hook did not overlap.
Serialised ==
  \E a, b \in Threads :
    /\ a # b
    /\ default_panic[b].base = default_panic[a].base
    /\ default_panic[b].depth = default_panic[a].depth + 1

\* C17 as stated: after two concurrent successful registrations the handler
\* installed before both calls is still in the installed chain, and on a
\* later panic it runs and a dump trigger runs after it.
C17_Original ==
  BothRegistered =>
    /\ hook.base = OriginalBase
    /\ hook.depth >= 1
    /\ (trace # <<>> /\ trace[1].val = 2 /\ Len(trace) >= 2) =>
         trace[2].op = "previous" /\ trace[2].arg = OriginalBase

\* C17 as amended: after two concurrent successful registrations a dump
\* trigger is installed in every interleaving, and on a later panic exactly
\* one innermost handler runs first and a dump trigger runs after it.  The
\* handler installed before both calls is that innermost handler when the two
\* take_hook/set_hook pairs did not overlap (the chain is then two closures
\* deep) and, when they overlapped, only if the thread that took it is also
\* the last to call set_hook; otherwise the runtime's default hook, which the
\* other thread took, runs in its place and the original handler is dropped.
C17_RaceKeepsDumpTrigger ==
  /\ BothRegistered =>
       /\ \E t \in Threads :
            /\ hook.base = default_panic[t].base
            /\ hook.depth = default_panic[t].depth + 1
       /\ IF Serialised
            THEN hook = [base |-> OriginalBase, depth |-> 2]
            ELSE /\ hook.depth = 1
                 /\ hook.base \in {OriginalBase, "default"}
                 /\ \E a, b \in Threads :
                      /\ a # b
                      /\ default_panic[a] = [base |-> OriginalBase, depth |-> 0]
                      /\ default_panic[b] = DefaultHook
  /\ (trace # <<>> /\ trace[1].val = 2) =>
       /\ fhook.depth >= 1
       /\ Count("previous") <= 1
       /\ Len(trace) >= 2 => trace[2].op = "previous" /\ trace[2].arg = fhook.base
       /\ \A i \in Events : trace[i].op \in DumpOps => i > 2
       /\ FaultOver => Called("dump_core_and_quit", 1) # {}

C17_Witness ==
  /\ BothRegistered
  /\ ~Serialised
  /\ OriginalBase = "user"
  /\ hook = [base |-> "default", depth |-> 1]
  /\ FaultOver
  /\ trace[1].val = 2
  /\ trace[2].arg = "default"
  /\ Called("kill", 1) # {}

====
